---- MODULE Spec2Model ----
(***************************************************************************)
(* State-machine model of the near-message mailbox contract (src/lib.rs).  *)
(* Every public method of `Contract` is one atomic step: the NEAR runtime  *)
(* runs one call at a time and discards every write of a call that panics. *)
(* The storage ledger (mod storage_impl) and the Email type (mod email)    *)
(* are declared in lib.rs but their files are not part of the sources; the *)
(* ledger is modelled from the written specification.                      *)
(***************************************************************************)
EXTENDS Integers, FiniteSets, Sequences, TLC

\* ------------------------------------------------------------- bounds
\* Cap on email_count (the code's counter is an unbounded u128).
MaxMails == 3
\* Cap on the credit one account may have deposited with the ledger.
MaxCredit == 8

\* ---------------------------------------------------------- constants
\* Bytes reserved per message (storage_impl, not under src/).
STORAGE_PER_MAIL == 2

AccountIds == {"alice", "bob"}
\* Ids a caller may name: every id the counter can assign, and one beyond.
EmailIds == 0..MaxMails
\* Values env::storage_byte_cost() may return.
ByteCosts == {1, 2}
\* Amounts a storage deposit may carry.
DepositAmounts == {2, 4}
\* Values env::attached_deposit() may have (assert_one_yocto wants 1).
AttachedDeposits == {0, 1}
\* Values env::block_timestamp() may return.
Timestamps == {7}

\* Option<T> is a set with at most one element.
None == {}
Some(x) == {x}
Unwrap(opt) == CHOOSE x \in opt : TRUE

\* What a caller may pass as (title, content, fee).
MailArgs ==
    { [title |-> "t1", content |-> "c1", fee |-> None],
      [title |-> "t2", content |-> "c2", fee |-> Some(5)] }

\* Outcome of a call: "ok", or the message of the panic that aborted it.
Ok == "ok"
ERR_ONE_YOCTO == "Requires attached deposit of exactly 1 yoctoNEAR"
ERR_NOT_REGISTERED == "Account not registered"
ERR_NOT_ENOUGH == "Not deposit enough"
ERR_FEE == "Fee must be none"
ERR_NOT_SENDER == "Caller is not sender"
ERR_UNWRAP == "called Option::unwrap on a None value"
ERR_SUB_OVERFLOW == "attempt to subtract with overflow"

\* Result of a view method: the value returned, or the panic message.
Returned(v) == [ok |-> TRUE, val |-> v]
Panicked(msg) == [ok |-> FALSE, val |-> msg]

VARIABLES
    senders,                    \* LookupMap<AccountId, UnorderedSet<EmailID>>
    receivers,                  \* LookupMap<AccountId, UnorderedSet<EmailID>>
    emails,                     \* UnorderedMap<EmailID, Email>
    email_count,                \* u128
    accounts,                   \* LookupMap<AccountId, VAccount>
    donation_contract_account,  \* Option<AccountId>
    storage_byte_cost,          \* env::storage_byte_cost()
    sent,                       \* history: the successful sends, in order
    deleted                     \* history: created ids a delete has succeeded on

contract_vars ==
    <<senders, receivers, emails, email_count, accounts, donation_contract_account>>
vars ==
    <<senders, receivers, emails, email_count, accounts, donation_contract_account,
      storage_byte_cost, sent, deleted>>

\* The Contract struct as one value.
self ==
    [ senders |-> senders, receivers |-> receivers, emails |-> emails,
      email_count |-> email_count, accounts |-> accounts,
      donation_contract_account |-> donation_contract_account ]

\* The call context near_sdk::env gives a method.
Env(predecessor, deposit, cost, ts) ==
    [ predecessor_account_id |-> predecessor, attached_deposit |-> deposit,
      storage_byte_cost |-> cost, block_timestamp |-> ts ]

\* LookupMap / UnorderedMap insert: add or overwrite one key.
MapInsert(m, k, v) == (k :> v) @@ m
\* UnorderedMap remove: absent keys are left alone.
MapRemove(m, k) == [x \in (DOMAIN m) \ {k} |-> m[x]]

\* --------------------------------------------------- storage ledger
\* StorageManagement::storage_balance_of: None for an unregistered account,
\* else its StorageBalance {total, available}, the available credit being
\* what the account deposited less what its messages have been charged.
storage_balance_of(s, account_id) ==
    IF account_id \notin DOMAIN s.accounts THEN None
    ELSE LET a == s.accounts[account_id]
         IN Some([total |-> a.total, available |-> a.total - a.used])

\* ------------------------------------------------------ can_send_mail
\* Variant: the comparison made non-strict.
can_send_mail_nonstrict(s, env, account_id) ==
    LET available_storage == Unwrap(storage_balance_of(s, account_id)).available
        mail_len == IF account_id \in DOMAIN s.senders
                    THEN Cardinality(s.senders[account_id]) + 1 ELSE 1
    IN available_storage >= mail_len * STORAGE_PER_MAIL * env.storage_byte_cost

\* Variant: only the messages still in the email map are counted.
can_send_mail_live(s, env, account_id) ==
    LET available_storage == Unwrap(storage_balance_of(s, account_id)).available
        mail_len == IF account_id \in DOMAIN s.senders
                    THEN Cardinality(s.senders[account_id] \cap DOMAIN s.emails) + 1
                    ELSE 1
    IN available_storage > mail_len * STORAGE_PER_MAIL * env.storage_byte_cost

\* Variant: the message about to be sent is not counted.
can_send_mail_off_by_one(s, env, account_id) ==
    LET available_storage == Unwrap(storage_balance_of(s, account_id)).available
        mail_len == IF account_id \in DOMAIN s.senders
                    THEN Cardinality(s.senders[account_id]) ELSE 0
    IN available_storage > mail_len * STORAGE_PER_MAIL * env.storage_byte_cost

can_send_mail(s, env, account_id) ==
    LET available_storage == Unwrap(storage_balance_of(s, account_id)).available
    IN IF account_id \in DOMAIN s.senders
       THEN LET mail_len == Cardinality(s.senders[account_id]) + 1
            IN available_storage > mail_len * STORAGE_PER_MAIL * env.storage_byte_cost
       ELSE available_storage > STORAGE_PER_MAIL * env.storage_byte_cost

\* ----------------------------------------------------------- panics
\* A panic aborts the call: the runtime keeps none of the writes made so
\* far (`current`), the contract is as it was on entry (`entry`).
\* Variant: the writes made before the panic are kept.
panic_keeps_writes(entry, current, msg) == [st |-> current, res |-> msg, id |-> 0]

panic(entry, current, msg) == [st |-> entry, res |-> msg, id |-> 0]

\* ------------------------------------- add_donation_contract_account
add_donation_contract_account(s, account) ==
    [s EXCEPT !.donation_contract_account = Some(account)]

\* ---------------------------------------------------------- send_mail
\* Variant: the charge leaves the cost per byte out.
charge_storage_flat(s, env, sender) ==
    [s EXCEPT !.accounts =
        MapInsert(@, sender, [s.accounts[sender] EXCEPT !.used = @ + STORAGE_PER_MAIL])]

charge_storage(s, env, sender) ==
    LET vaccount == s.accounts[sender]
        charged == [vaccount EXCEPT !.used = @ + STORAGE_PER_MAIL * env.storage_byte_cost]
    IN [s EXCEPT !.accounts = MapInsert(@, sender, charged)]

\* Variant: the counter is left where it was.
bump_email_count_stuck(s) == s

bump_email_count(s) == [s EXCEPT !.email_count = @ + 1]

\* Variant: the fee rule is never applied.
fee_allowed_always(s, sender, fee) == TRUE

fee_allowed(s, sender, fee) ==
    IF Some(sender) = s.donation_contract_account THEN fee = None ELSE TRUE

\* Variant: title and content change places.
new_email_swapped(env, title, content, fee) ==
    [title |-> content, content |-> title, timestamp |-> env.block_timestamp, fee |-> fee]

new_email(env, title, content, fee) ==
    [title |-> title, content |-> content, timestamp |-> env.block_timestamp, fee |-> fee]

insert_email(s, current_count, email) ==
    [s EXCEPT !.emails = MapInsert(@, current_count, email)]

\* Variant: the sender's set is made anew on every send.
index_sender_overwrite(s, sender, current_count) ==
    [s EXCEPT !.senders = MapInsert(@, sender, {current_count})]

index_sender(s, sender, current_count) ==
    IF sender \in DOMAIN s.senders
    THEN [s EXCEPT !.senders = MapInsert(@, sender, s.senders[sender] \cup {current_count})]
    ELSE [s EXCEPT !.senders = MapInsert(@, sender, {current_count})]

\* Variant: a receiver's first set is stored before the id is put in it.
index_receiver_fresh(s, receiver, current_count) ==
    IF receiver \in DOMAIN s.receivers
    THEN [s EXCEPT !.receivers = MapInsert(@, receiver, s.receivers[receiver] \cup {current_count})]
    ELSE [s EXCEPT !.receivers = MapInsert(@, receiver, {})]

\* Variant: the receiver's set is looked up in the senders map.
index_receiver_from_senders(s, receiver, current_count) ==
    IF receiver \in DOMAIN s.senders
    THEN [s EXCEPT !.receivers = MapInsert(@, receiver, s.senders[receiver] \cup {current_count})]
    ELSE [s EXCEPT !.receivers = MapInsert(@, receiver, {current_count})]

index_receiver(s, receiver, current_count) ==
    IF receiver \in DOMAIN s.receivers
    THEN [s EXCEPT !.receivers = MapInsert(@, receiver, s.receivers[receiver] \cup {current_count})]
    ELSE [s EXCEPT !.receivers = MapInsert(@, receiver, {current_count})]

\* Variant: the fee rule is applied before the registration and quota checks.
send_mail_fee_first(s, env, receiver, title, content, fee) ==
    LET sender == env.predecessor_account_id IN
    IF env.attached_deposit /= 1 THEN panic(s, s, ERR_ONE_YOCTO)
    ELSE IF ~fee_allowed(s, sender, fee) THEN panic(s, s, ERR_FEE)
    ELSE IF sender \notin DOMAIN s.accounts THEN panic(s, s, ERR_NOT_REGISTERED)
    ELSE IF ~can_send_mail(s, env, sender) THEN panic(s, s, ERR_NOT_ENOUGH)
    ELSE
      LET s1 == charge_storage(s, env, sender)
          current_count == s1.email_count
          s2 == bump_email_count(s1)
          s3 == insert_email(s2, current_count, new_email(env, title, content, fee))
          s4 == index_sender(s3, sender, current_count)
          s5 == index_receiver(s4, receiver, current_count)
      IN [st |-> s5, res |-> Ok, id |-> current_count]

send_mail(s, env, receiver, title, content, fee) ==
    LET sender == env.predecessor_account_id IN
    IF env.attached_deposit /= 1 THEN panic(s, s, ERR_ONE_YOCTO)
    ELSE IF sender \notin DOMAIN s.accounts THEN panic(s, s, ERR_NOT_REGISTERED)
    ELSE IF ~can_send_mail(s, env, sender) THEN panic(s, s, ERR_NOT_ENOUGH)
    ELSE
      LET s1 == charge_storage(s, env, sender)
          current_count == s1.email_count
          s2 == bump_email_count(s1)
      IN IF ~fee_allowed(s2, sender, fee) THEN panic(s, s2, ERR_FEE)
         ELSE
           LET s3 == insert_email(s2, current_count, new_email(env, title, content, fee))
               s4 == index_sender(s3, sender, current_count)
               s5 == index_receiver(s4, receiver, current_count)
           IN [st |-> s5, res |-> Ok, id |-> current_count]

\* ---------------------------------------------------------- get_email
get_email(s, email_id) ==
    IF email_id \in DOMAIN s.emails THEN Returned(s.emails[email_id])
    ELSE Panicked(ERR_UNWRAP)

\* -------------------------------------------------------- delete_mail
delete_guard(s, sender, real_email_id) ==
    ~(real_email_id \in s.senders[sender])

\* Variant: the deleted id is also taken out of the caller's sender set.
delete_mail_pruning(s, env, email_id) ==
    LET sender == env.predecessor_account_id
    IN IF sender \notin DOMAIN s.senders THEN panic(s, s, ERR_UNWRAP)
       ELSE IF ~delete_guard(s, sender, email_id) THEN panic(s, s, ERR_NOT_SENDER)
       ELSE [st |-> [s EXCEPT !.emails = MapRemove(@, email_id),
                              !.senders = MapInsert(@, sender, s.senders[sender] \ {email_id}),
                              !.receivers = [a \in DOMAIN @ |-> @[a] \ {email_id}]],
             res |-> Ok, id |-> email_id]

\* Variant: a delete gives the id back to the counter.
delete_mail_decrementing(s, env, email_id) ==
    LET sender == env.predecessor_account_id
    IN IF sender \notin DOMAIN s.senders THEN panic(s, s, ERR_UNWRAP)
       ELSE IF ~delete_guard(s, sender, email_id) THEN panic(s, s, ERR_NOT_SENDER)
       ELSE [st |-> [s EXCEPT !.emails = MapRemove(@, email_id),
                              !.email_count = IF @ > 0 THEN @ - 1 ELSE 0],
             res |-> Ok, id |-> email_id]

\* Variant: a delete refunds the caller one message's charge.
delete_mail_refunding(s, env, email_id) ==
    LET sender == env.predecessor_account_id
        refund == STORAGE_PER_MAIL * env.storage_byte_cost
    IN IF sender \notin DOMAIN s.senders THEN panic(s, s, ERR_UNWRAP)
       ELSE IF ~delete_guard(s, sender, email_id) THEN panic(s, s, ERR_NOT_SENDER)
       ELSE [st |-> [s EXCEPT !.emails = MapRemove(@, email_id),
                              !.accounts = [a \in DOMAIN @ |->
                                  IF a = sender /\ @[a].used >= refund
                                  THEN [@[a] EXCEPT !.used = @ - refund]
                                  ELSE @[a]]],
             res |-> Ok, id |-> email_id]

delete_mail(s, env, email_id) ==
    LET real_email_id == email_id
        sender == env.predecessor_account_id
    IN IF sender \notin DOMAIN s.senders THEN panic(s, s, ERR_UNWRAP)
       ELSE IF ~delete_guard(s, sender, real_email_id) THEN panic(s, s, ERR_NOT_SENDER)
       ELSE [st |-> [s EXCEPT !.emails = MapRemove(@, real_email_id)],
             res |-> Ok, id |-> real_email_id]

\* ------------------------------------------------------- view methods
mail_exist(s) == Cardinality(DOMAIN s.emails)

\* An UnorderedSet iterates in insertion order while nothing is removed
\* from it; ids are inserted as the counter hands them out, smallest first.
RECURSIVE IdsInOrder(_)
IdsInOrder(S) ==
    IF S = {} THEN <<>>
    ELSE LET m == CHOOSE x \in S : \A y \in S : x <= y
         IN <<m>> \o IdsInOrder(S \ {m})

\* The loop of get_mail_receive / get_mail_send: unwrap every id's email.
resolve_all(s, ids) ==
    IF \E i \in 1..Len(ids) : ids[i] \notin DOMAIN s.emails
    THEN Panicked(ERR_UNWRAP)
    ELSE Returned([i \in 1..Len(ids) |-> s.emails[ids[i]]])

get_mail_receive(s, receiver) ==
    IF receiver \in DOMAIN s.receivers
    THEN resolve_all(s, IdsInOrder(s.receivers[receiver]))
    ELSE Returned(<<>>)

get_mail_send(s, sender) ==
    IF sender \in DOMAIN s.senders
    THEN resolve_all(s, IdsInOrder(s.senders[sender]))
    ELSE Returned(<<>>)

get_mail_receive_num(s, receiver) ==
    IF receiver \in DOMAIN s.receivers THEN Cardinality(s.receivers[receiver]) ELSE 0

get_mail_send_num(s, sender) ==
    IF sender \in DOMAIN s.senders THEN Cardinality(s.senders[sender]) ELSE 0

\* u128 subtraction: a build with overflow checks panics when it underflows,
\* one without wraps; either way no count is returned.
mail_delete(s) ==
    IF s.email_count < mail_exist(s) THEN Panicked(ERR_SUB_OVERFLOW)
    ELSE Returned(s.email_count - mail_exist(s))

\* ------------------------------------------------------------ actions
Init ==
    /\ senders = << >>
    /\ receivers = << >>
    /\ emails = << >>
    /\ email_count = 0
    /\ accounts = << >>
    /\ donation_contract_account = None
    /\ storage_byte_cost \in ByteCosts
    /\ sent = << >>
    /\ deleted = {}

\* Write a method's resulting Contract back to the state.
Commit(st) ==
    /\ senders' = st.senders
    /\ receivers' = st.receivers
    /\ emails' = st.emails
    /\ email_count' = st.email_count
    /\ accounts' = st.accounts
    /\ donation_contract_account' = st.donation_contract_account

AddDonationContractAccount(account) ==
    /\ Commit(add_donation_contract_account(self, account))
    /\ UNCHANGED <<storage_byte_cost, sent, deleted>>

SendMail(predecessor, deposit, ts, receiver, m) ==
    LET env == Env(predecessor, deposit, storage_byte_cost, ts)
        r == send_mail(self, env, receiver, m.title, m.content, m.fee)
    IN /\ r.res = Ok => email_count < MaxMails
       /\ Commit(r.st)
       /\ sent' = IF r.res = Ok
                  THEN Append(sent, [id |-> r.id, sender |-> predecessor,
                                     receiver |-> receiver, title |-> m.title,
                                     content |-> m.content, fee |-> m.fee])
                  ELSE sent
       /\ UNCHANGED <<storage_byte_cost, deleted>>

DeleteMail(predecessor, email_id) ==
    LET env == Env(predecessor, 0, storage_byte_cost, 0)
        r == delete_mail(self, env, email_id)
    IN /\ Commit(r.st)
       /\ deleted' = IF r.res = Ok /\ \E i \in 1..Len(sent) : sent[i].id = email_id
                     THEN deleted \cup {email_id}
                     ELSE deleted
       /\ UNCHANGED <<storage_byte_cost, sent>>

\* The external ledger registers an account, or tops it up.
StorageDeposit(account_id, amount) ==
    LET old == IF account_id \in DOMAIN accounts THEN accounts[account_id]
               ELSE [total |-> 0, used |-> 0]
    IN /\ old.total + amount <= MaxCredit
       /\ accounts' = MapInsert(accounts, account_id, [old EXCEPT !.total = @ + amount])
       /\ UNCHANGED <<senders, receivers, emails, email_count, donation_contract_account,
                      storage_byte_cost, sent, deleted>>

\* The cost oracle moves to another cost per byte.
SetStorageByteCost(cost) ==
    /\ cost /= storage_byte_cost
    /\ storage_byte_cost' = cost
    /\ UNCHANGED <<senders, receivers, emails, email_count, accounts,
                   donation_contract_account, sent, deleted>>

Next ==
    \/ \E account \in AccountIds : AddDonationContractAccount(account)
    \/ \E predecessor \in AccountIds, deposit \in AttachedDeposits, ts \in Timestamps,
          receiver \in AccountIds, m \in MailArgs :
            SendMail(predecessor, deposit, ts, receiver, m)
    \/ \E predecessor \in AccountIds, email_id \in EmailIds :
            DeleteMail(predecessor, email_id)
    \/ \E account_id \in AccountIds, amount \in DepositAmounts :
            StorageDeposit(account_id, amount)
    \/ \E cost \in ByteCosts : SetStorageByteCost(cost)

Spec == Init /\ [][Next]_vars

\* =====================================================================
\* Properties.  A call is named by its inputs; its result is what the
\* method returns when applied to the current state.
\* =====================================================================
SendCalls ==
    [ caller : AccountIds, deposit : AttachedDeposits, ts : Timestamps,
      receiver : AccountIds, m : MailArgs ]
SendEnv(c) == Env(c.caller, c.deposit, storage_byte_cost, c.ts)
SendResult(c) == send_mail(self, SendEnv(c), c.receiver, c.m.title, c.m.content, c.m.fee)

DeleteCalls == [caller : AccountIds, id : EmailIds]
DeleteEnv(c) == Env(c.caller, 0, storage_byte_cost, 0)
DeleteResult(c) == delete_mail(self, DeleteEnv(c), c.id)

\* Read from the history of successful sends.
Created == {sent[i].id : i \in 1..Len(sent)}
SentBy(a) == {sent[i].id : i \in {j \in 1..Len(sent) : sent[j].sender = a}}
ReceivedBy(a) == {sent[i].id : i \in {j \in 1..Len(sent) : sent[j].receiver = a}}
SendOf(id) == sent[CHOOSE i \in 1..Len(sent) : sent[i].id = id]

Available(a) == Unwrap(storage_balance_of(self, a)).available
PerMessageCost == STORAGE_PER_MAIL * storage_byte_cost

\* C1: delete(caller, id) succeeds iff id was assigned by an earlier
\* successful send whose sender was caller; any other caller's delete fails
\* and leaves the message, if it was live, fetchable.
C1_DeleteOwnership ==
    \A c \in DeleteCalls :
        LET r == DeleteResult(c) IN
        /\ (r.res = Ok) <=> (c.id \in SentBy(c.caller))
        /\ c.id \notin SentBy(c.caller) =>
              /\ r.res \in {ERR_NOT_SENDER, ERR_UNWRAP}
              /\ get_email(self, c.id).ok => get_email(r.st, c.id).ok

\* C2: for a registered caller attaching one yoctoNEAR, send passes the
\* quota check iff available(caller) > n * STORAGE_PER_MAIL * unitCost with
\* n = 1 + countSent(caller); equality is rejected with "Not deposit enough".
C2_QuotaCheckStrict ==
    \A c \in SendCalls :
        (c.deposit = 1 /\ c.caller \in DOMAIN accounts) =>
            LET n == 1 + get_mail_send_num(self, c.caller) IN
            /\ (SendResult(c).res /= ERR_NOT_ENOUGH) <=>
                   (Available(c.caller) > n * STORAGE_PER_MAIL * storage_byte_cost)
            /\ (Available(c.caller) = n * STORAGE_PER_MAIL * storage_byte_cost) =>
                   SendResult(c).res = ERR_NOT_ENOUGH

\* A sender with earlier sends whose credit equals the required amount
\* exactly is turned away.
C2_Witness ==
    \E c \in SendCalls :
        /\ c.deposit = 1 /\ c.caller \in DOMAIN accounts
        /\ get_mail_send_num(self, c.caller) >= 1
        /\ Available(c.caller) = (1 + get_mail_send_num(self, c.caller)) * PerMessageCost
        /\ SendResult(c).res = ERR_NOT_ENOUGH

\* C3: deletions never free quota headroom: a send by an account with k
\* successful sends succeeds only if available > (k+1) * STORAGE_PER_MAIL *
\* unitCost, however many of the k were deleted, and no delete, successful
\* or failed, changes can_send_mail for any registered account.
C3_DeleteFreesNoHeadroom ==
    /\ \A c \in SendCalls :
          SendResult(c).res = Ok =>
              Available(c.caller) > (Cardinality(SentBy(c.caller)) + 1) * PerMessageCost
    /\ \A c \in DeleteCalls :
          LET r == DeleteResult(c) IN
          /\ DOMAIN r.st.accounts = DOMAIN accounts
          /\ \A a \in DOMAIN accounts :
                can_send_mail(r.st, DeleteEnv(c), a) = can_send_mail(self, DeleteEnv(c), a)

\* An account one of whose messages was deleted is refused a send that
\* counting only its live messages would have allowed.
C3_Witness ==
    \E c \in SendCalls :
        /\ c.deposit = 1 /\ c.caller \in DOMAIN accounts
        /\ SentBy(c.caller) \cap deleted /= {}
        /\ SendResult(c).res = ERR_NOT_ENOUGH
        /\ Available(c.caller) >
              (Cardinality(SentBy(c.caller) \ deleted) + 1) * PerMessageCost

\* C4: the ids of the successful sends are 0, 1, 2, ... in order of success,
\* none assigned twice even after a delete; email_count is the number of
\* successful sends, a successful send advances it by one and takes its old
\* value as id, and a failed send, a delete or a configure leaves it alone.
C4_MonotonicIds ==
    /\ \A i \in 1..Len(sent) : sent[i].id = i - 1
    /\ email_count = Len(sent)
    /\ \A c \in SendCalls :
          LET r == SendResult(c) IN
          IF r.res = Ok
          THEN r.id = email_count /\ r.st.email_count = email_count + 1
          ELSE r.st.email_count = email_count
    /\ \A c \in DeleteCalls : DeleteResult(c).st.email_count = email_count
    /\ \A a \in AccountIds :
          add_donation_contract_account(self, a).email_count = email_count

\* A send has succeeded after the message of an earlier id was deleted.
C4_Witness ==
    /\ Len(sent) = 3
    /\ 0 \in deleted
    /\ 2 \in DOMAIN emails

\* C5: email_count >= the number of entries of the email map, so the
\* subtraction of mail_delete never underflows, and
\* mail_delete() + mail_exist() = email_count.
C5_DiagnosticIdentity ==
    /\ email_count >= mail_exist(self)
    /\ mail_delete(self).ok
    /\ mail_delete(self).val + mail_exist(self) = email_count

\* Some messages are live and some were deleted.
C5_Witness ==
    /\ deleted /= {}
    /\ mail_exist(self) >= 1
    /\ mail_delete(self).ok /\ mail_delete(self).val >= 1

\* C6: after a successful delete of id, get_email(id) fails, and the sizes
\* and members of every sender and receiver set are what they were; the id
\* of a deleted message stays in its sender's and its receiver's set.
C6_IndexNotPruned ==
    /\ \A c \in DeleteCalls :
          LET r == DeleteResult(c) IN
          r.res = Ok =>
              /\ ~get_email(r.st, c.id).ok
              /\ get_email(r.st, c.id).val = ERR_UNWRAP
              /\ r.st.senders = senders
              /\ r.st.receivers = receivers
              /\ \A a \in AccountIds :
                    /\ get_mail_send_num(r.st, a) = get_mail_send_num(self, a)
                    /\ get_mail_receive_num(r.st, a) = get_mail_receive_num(self, a)
    /\ \A id \in deleted :
          /\ ~get_email(self, id).ok
          /\ SendOf(id).sender \in DOMAIN senders /\ id \in senders[SendOf(id).sender]
          /\ SendOf(id).receiver \in DOMAIN receivers /\ id \in receivers[SendOf(id).receiver]

\* A message was deleted and its id is still counted for its sender.
C6_Witness ==
    \E id \in deleted :
        /\ ~get_email(self, id).ok
        /\ id \in senders[SendOf(id).sender]
        /\ get_mail_send_num(self, SendOf(id).sender) = Cardinality(SentBy(SendOf(id).sender))

\* C7 as stated: every send with a fee from the configured distinguished
\* account (one yoctoNEAR attached) fails with "Fee must be none".
C7_FeeAlwaysFeeError ==
    \A c \in SendCalls :
        (c.deposit = 1 /\ Some(c.caller) = donation_contract_account /\ c.m.fee /= None) =>
            SendResult(c).res = ERR_FEE

\* C7, amended: every send with a fee from the configured distinguished
\* account fails; it fails with "Fee must be none" exactly when it passes
\* the checks made before the fee rule (deposit, registration, quota), and
\* with the failing check's error otherwise.  A send without a fee, or from
\* any other account, never fails with "Fee must be none".
C7_NoFeeEnforcement ==
    \A c \in SendCalls :
        LET r == SendResult(c)
            distinguished == Some(c.caller) = donation_contract_account
        IN IF distinguished /\ c.m.fee /= None
           THEN /\ r.res /= Ok
                /\ (r.res = ERR_FEE) <=>
                       /\ c.deposit = 1
                       /\ c.caller \in DOMAIN accounts
                       /\ can_send_mail(self, SendEnv(c), c.caller)
           ELSE r.res /= ERR_FEE

\* The distinguished account, having sent before, is refused a send with a
\* fee while the same send without a fee would go through.
C7_Witness ==
    \E c \in SendCalls, d \in SendCalls :
        /\ Some(c.caller) = donation_contract_account
        /\ c.m.fee /= None /\ SendResult(c).res = ERR_FEE
        /\ d.caller = c.caller /\ d.deposit = 1 /\ d.m.fee = None
        /\ SendResult(d).res = Ok
        /\ SentBy(c.caller) /= {}

\* C8: a send or a delete that fails leaves the whole contract state as it
\* was: the email map, both indices, email_count, every account's ledger
\* entry and the distinguished account.
C8_FailureChangesNothing ==
    /\ \A c \in SendCalls : SendResult(c).res /= Ok => SendResult(c).st = self
    /\ \A c \in DeleteCalls : DeleteResult(c).res /= Ok => DeleteResult(c).st = self

\* In a state that holds messages, a send by the distinguished account
\* fails on the fee rule after the charge and the counter increment were
\* made, another send fails the quota check, and a delete fails with
\* "Caller is not sender".
C8_Witness ==
    /\ sent /= << >>
    /\ \E c \in SendCalls :
          /\ SendResult(c).res = ERR_FEE
          /\ bump_email_count(charge_storage(self, SendEnv(c), c.caller)) /= self
    /\ \E c \in SendCalls : SendResult(c).res = ERR_NOT_ENOUGH
    /\ \E c \in DeleteCalls : DeleteResult(c).res = ERR_NOT_SENDER

\* The emails of the ids of S that are still in the email map, by id.
LiveEmails(S) ==
    LET ids == IdsInOrder(S \cap DOMAIN emails)
    IN [i \in 1..Len(ids) |-> emails[ids[i]]]

\* C9: get_mail_send and get_mail_receive complete for every account and
\* return exactly the emails of the ids of its index set that are still
\* live, dropping the ids whose message was deleted.
C9_ListsSkipDeleted ==
    \A a \in AccountIds :
        /\ get_mail_send(self, a).ok
        /\ get_mail_send(self, a).val = LiveEmails(SentBy(a))
        /\ get_mail_receive(self, a).ok
        /\ get_mail_receive(self, a).val = LiveEmails(ReceivedBy(a))

\* C10: get_email(id) returns an email iff id was assigned by a successful
\* send and no delete of id has succeeded since; otherwise it fails.  The
\* title, content and fee returned are those passed to that send.
C10_FetchLiveOnly ==
    \A id \in EmailIds :
        LET g == get_email(self, id) IN
        IF id \in Created \ deleted
        THEN /\ g.ok
             /\ g.val.title = SendOf(id).title
             /\ g.val.content = SendOf(id).content
             /\ g.val.fee = SendOf(id).fee
        ELSE ~g.ok /\ g.val = ERR_UNWRAP

\* One message is live and carries a fee, another was deleted, and an id
\* was never assigned.
C10_Witness ==
    /\ deleted /= {}
    /\ \E id \in Created \ deleted : get_email(self, id).ok /\ get_email(self, id).val.fee /= None
    /\ \E id \in EmailIds \ Created : ~get_email(self, id).ok

\* Every send account a may make with one yoctoNEAR attached is refused
\* with "Not deposit enough".
SendCallsOf(a) ==
    [ caller : {a}, deposit : AttachedDeposits, ts : Timestamps,
      receiver : AccountIds, m : MailArgs ]
RefusedForStorage(a) ==
    /\ a \in DOMAIN accounts
    /\ \A c \in SendCallsOf(a) :
          IF c.deposit = 1 THEN SendResult(c).res = ERR_NOT_ENOUGH
          ELSE SendResult(c).res /= Ok

\* The quota check of send_mail turns account a away.
QuotaRefuses(a) ==
    /\ a \in DOMAIN accounts
    /\ ~can_send_mail(self, Env(a, 1, storage_byte_cost, 0), a)

\* The step leaves the cost per byte and what a has deposited as they were.
NoTopUp(a) ==
    /\ storage_byte_cost' = storage_byte_cost
    /\ a \in DOMAIN accounts /\ a \in DOMAIN accounts'
    /\ accounts'[a].total = accounts[a].total

\* C11: with the unit cost constant and no change made to account a's
\* credit by the ledger, once a's sends are refused with "Not deposit
\* enough" they are still refused with it after any step (a send or a delete
\* by a or by anyone else, a configure, a deposit to another account), hence
\* after any sequence of them.
C11_InsufficientStorageStable ==
    /\ [](\A a \in AccountIds : RefusedForStorage(a) <=> QuotaRefuses(a))
    /\ [][\A a \in AccountIds :
             (NoTopUp(a) /\ QuotaRefuses(a)) => QuotaRefuses(a)']_vars

\* An account is refused although one of its messages was deleted and
\* another account has sent since it last sent.
C11_Witness ==
    \E a \in AccountIds :
        /\ RefusedForStorage(a)
        /\ SentBy(a) \cap deleted /= {}
        /\ Len(sent) >= 2 /\ sent[Len(sent)].sender /= a

\* C12: every successful delete takes exactly one entry out of the email
\* map, so that mail_delete() counts the deletes that have succeeded; no
\* delete succeeds on an id that is not live (never created, or deleted
\* already).
C12_DeleteRemovesLive ==
    \A c \in DeleteCalls :
        LET r == DeleteResult(c) IN
        r.res = Ok =>
            /\ c.id \in DOMAIN emails
            /\ mail_exist(r.st) = mail_exist(self) - 1
            /\ mail_delete(r.st).val = mail_delete(self).val + 1

\* C13: every live email is in the sender set of the account that sent it
\* and in the receiver set of the account it was sent to; a successful send
\* returns a state in which the new id is fetchable and in both sets, the
\* sets being created when the account had none (sender = receiver
\* included).
C13_LiveEmailIndexed ==
    /\ \A id \in DOMAIN emails :
          /\ id \in Created
          /\ SendOf(id).sender \in DOMAIN senders
          /\ id \in senders[SendOf(id).sender]
          /\ SendOf(id).receiver \in DOMAIN receivers
          /\ id \in receivers[SendOf(id).receiver]
    /\ \A c \in SendCalls :
          LET r == SendResult(c) IN
          r.res = Ok =>
              /\ get_email(r.st, r.id).ok
              /\ c.caller \in DOMAIN r.st.senders /\ r.id \in r.st.senders[c.caller]
              /\ c.receiver \in DOMAIN r.st.receivers /\ r.id \in r.st.receivers[c.receiver]

\* A live email was sent by an account to itself, and a send is about to
\* create the receiver set of an account that has none.
C13_Witness ==
    /\ \E id \in DOMAIN emails : SendOf(id).sender = SendOf(id).receiver
    /\ \E c \in SendCalls :
          /\ SendResult(c).res = Ok
          /\ c.receiver \notin DOMAIN receivers
          /\ c.caller /= c.receiver

\* C14: a successful send raises the caller's used credit by exactly
\* STORAGE_PER_MAIL * unitCost (the cost of that call) and leaves every
\* other ledger entry as it was; a delete, successful or not, changes no
\* ledger entry; so no send or delete lowers an account's used credit.
C14_ChargePerSendNoRefund ==
    /\ \A c \in SendCalls :
          LET r == SendResult(c) IN
          /\ r.res = Ok =>
                r.st.accounts =
                    [accounts EXCEPT ![c.caller].used = @ + STORAGE_PER_MAIL * storage_byte_cost]
          /\ DOMAIN r.st.accounts = DOMAIN accounts
          /\ \A a \in DOMAIN accounts : r.st.accounts[a].used >= accounts[a].used
    /\ \A c \in DeleteCalls : DeleteResult(c).st.accounts = accounts

\* An account was charged 4 for its one message (sent at cost 2 a byte), and
\* an account whose message was deleted still carries the charge for it.
C14_Witness ==
    /\ \E a \in DOMAIN accounts :
          Cardinality(SentBy(a)) = 1 /\ accounts[a].used = 2 * STORAGE_PER_MAIL
    /\ \E a \in DOMAIN accounts :
          /\ SentBy(a) \cap deleted /= {}
          /\ accounts[a].used >= Cardinality(SentBy(a)) * STORAGE_PER_MAIL

\* The successful sends account a made, and those made to it.
NumSentBy(a) == Cardinality({i \in 1..Len(sent) : sent[i].sender = a})
NumReceivedBy(a) == Cardinality({i \in 1..Len(sent) : sent[i].receiver = a})

\* C15: get_mail_send_num(a) is the number of successful sends by a and
\* get_mail_receive_num(a) the number of successful sends to a, whatever was
\* deleted; both are 0 for an account never seen in that role; no send or
\* delete lowers either.
C15_CountsAreSendCounts ==
    /\ \A a \in AccountIds :
          /\ get_mail_send_num(self, a) = NumSentBy(a)
          /\ get_mail_receive_num(self, a) = NumReceivedBy(a)
          /\ a \notin DOMAIN senders => get_mail_send_num(self, a) = 0
          /\ a \notin DOMAIN receivers => get_mail_receive_num(self, a) = 0
    /\ \A c \in SendCalls : \A a \in AccountIds :
          /\ get_mail_send_num(SendResult(c).st, a) >= get_mail_send_num(self, a)
          /\ get_mail_receive_num(SendResult(c).st, a) >= get_mail_receive_num(self, a)
    /\ \A c \in DeleteCalls : \A a \in AccountIds :
          /\ get_mail_send_num(DeleteResult(c).st, a) = get_mail_send_num(self, a)
          /\ get_mail_receive_num(DeleteResult(c).st, a) = get_mail_receive_num(self, a)

\* One account has sent twice and had a message deleted, the other has
\* never received anything.
C15_Witness ==
    /\ \E a \in AccountIds :
          /\ get_mail_send_num(self, a) = 2
          /\ SentBy(a) \cap deleted /= {}
    /\ \E a \in AccountIds :
          a \notin DOMAIN receivers /\ get_mail_receive_num(self, a) = 0

\* C16: of the checks send makes on a call that attaches one yoctoNEAR,
\* registration comes first: a caller with no ledger entry fails with
\* "Account not registered", also when it is the distinguished account and
\* attaches a fee; a registered caller that cannot afford the message fails
\* with "Not deposit enough", the fee rule not being reached.  Whatever the
\* deposit, an unregistered caller never fails with "Not deposit enough" or
\* "Fee must be none", and one that cannot afford never with the latter.
C16_RegistrationThenQuotaThenFee ==
    \A c \in SendCalls :
        LET r == SendResult(c) IN
        IF c.caller \notin DOMAIN accounts
        THEN /\ c.deposit = 1 => r.res = ERR_NOT_REGISTERED
             /\ r.res \notin {Ok, ERR_NOT_ENOUGH, ERR_FEE}
        ELSE ~can_send_mail(self, SendEnv(c), c.caller) =>
                /\ c.deposit = 1 => r.res = ERR_NOT_ENOUGH
                /\ r.res \notin {Ok, ERR_NOT_REGISTERED, ERR_FEE}

\* A registered distinguished account that has sent before and cannot
\* afford another message sends with a fee and is refused for storage, not
\* for the fee; the other account, unregistered, is told so.
C16_Witness ==
    /\ \E c \in SendCalls :
          /\ c.deposit = 1 /\ c.m.fee /= None
          /\ Some(c.caller) = donation_contract_account
          /\ c.caller \in DOMAIN accounts
          /\ SentBy(c.caller) /= {}
          /\ SendResult(c).res = ERR_NOT_ENOUGH
    /\ \E c \in SendCalls :
          /\ c.deposit = 1 /\ c.m.fee /= None
          /\ c.caller \notin DOMAIN accounts
          /\ SendResult(c).res = ERR_NOT_REGISTERED

\* The same for an unregistered distinguished account: its send with a fee
\* is refused for want of registration.
C16_WitnessUnregistered ==
    \E c \in SendCalls :
        /\ c.deposit = 1 /\ c.m.fee /= None
        /\ Some(c.caller) = donation_contract_account
        /\ c.caller \notin DOMAIN accounts
        /\ SendResult(c).res = ERR_NOT_REGISTERED

\* The sum of the function f over the accounts of S.
RECURSIVE SumOver(_, _)
SumOver(f, S) ==
    IF S = {} THEN 0
    ELSE LET a == CHOOSE x \in S : TRUE IN f[a] + SumOver(f, S \ {a})

SendNums == [a \in AccountIds |-> get_mail_send_num(self, a)]
ReceiveNums == [a \in AccountIds |-> get_mail_receive_num(self, a)]

\* C17: every id below email_count is in exactly one account's sender set
\* and exactly one account's receiver set, no set holds an id >=
\* email_count, and so the send counts and the receive counts of all
\* accounts each add up to email_count.
C17_IndexPartition ==
    /\ \A id \in 0..(email_count - 1) :
          /\ Cardinality({a \in DOMAIN senders : id \in senders[a]}) = 1
          /\ Cardinality({a \in DOMAIN receivers : id \in receivers[a]}) = 1
    /\ \A a \in DOMAIN senders : \A id \in senders[a] : id < email_count
    /\ \A a \in DOMAIN receivers : \A id \in receivers[a] : id < email_count
    /\ SumOver(SendNums, AccountIds) = email_count
    /\ SumOver(ReceiveNums, AccountIds) = email_count

\* Three ids are out, both accounts have sent and both have received, and
\* one of the ids was deleted.
C17_Witness ==
    /\ email_count = 3
    /\ DOMAIN senders = AccountIds /\ DOMAIN receivers = AccountIds
    /\ \A a \in AccountIds : senders[a] /= {} /\ receivers[a] /= {}
    /\ deleted /= {}

\* C18: a successful send charges less than the caller had available:
\* STORAGE_PER_MAIL * unitCost < available(caller) when the charge is made,
\* and, available being total - used, the caller's available credit is that
\* much lower and still above zero afterwards; so every account that has
\* been charged has credit left.
C18_ChargeBelowAvailable ==
    /\ \A c \in SendCalls :
          LET r == SendResult(c)
              charge == STORAGE_PER_MAIL * storage_byte_cost
          IN r.res = Ok =>
                /\ charge < Available(c.caller)
                /\ Unwrap(storage_balance_of(r.st, c.caller)).available
                       = Available(c.caller) - charge
                /\ Unwrap(storage_balance_of(r.st, c.caller)).available > 0
    /\ \A a \in DOMAIN accounts : accounts[a].used > 0 => Available(a) > 0

\* An account has sent twice, is left with just the credit of one message
\* at the current cost, and could not send a third.
C18_Witness ==
    \E a \in DOMAIN accounts :
        /\ Cardinality(SentBy(a)) = 2
        /\ Available(a) > 0
        /\ Available(a) <= 2 * PerMessageCost
        /\ QuotaRefuses(a)

====
